---- MODULE Spec2Model ----
(***************************************************************************)
(* homebridge-notify-alerts:                                               *)
(*  - the per-trigger dispatcher (NotifyWebhookAccessory: getContactState, *)
(*    setContactState, sendNotification) of src/src/webhookAccessory.ts;   *)
(*  - the platform (NotifyWebhookPlatform: configureAccessory,             *)
(*    discoverDevices) of src/dist/platform.js;                            *)
(*  - the settings UI server (testWebhook, makeHttpsRequest).              *)
(*                                                                         *)
(* Time is discrete; one tick is TickMs milliseconds.  A timer or a        *)
(* request timeout that is due runs before time advances further.          *)
(***************************************************************************)
EXTENDS Integers, Sequences, FiniteSets, TLC

VARIABLES
    webhookConfig,  \* per entity: the bound definition (this.webhookConfig)
    charValue,      \* per entity: the value the host holds for the characteristic
    acts,           \* the invocations of the set handler that took the open branch
                    \* and still have a request in flight or a timer pending
    hostOn,         \* per entity: open requests the host delivered to the set handler
    posts,          \* per entity: HTTP POSTs issued
    resets,         \* per entity: updateCharacteristic(closed) calls made by reset timers
    event,          \* what happened in the last step: the answer to a state query,
                    \* a handled request that did not open, a settled dispatch
                    \* with its outcome, or a reset
    send,           \* one call of sendNotification followed from request to result
    ui,             \* one call of the settings UI server's testWebhook
    config,         \* the platform's configured webhooks value (this.config.webhooks)
    accessories,    \* the platform's list of restored accessories (this.accessories)
    launched,       \* how many times the host has signalled didFinishLaunching
    ops,            \* what discoverDevices did, in order: accessories created,
                    \* dispatchers attached, registrations signalled to the host
    log,            \* the lines discoverDevices wrote to the platform log
    runs,           \* how many times discoverDevices has run in this platform
    cache,          \* the host's cached accessories it has yet to restore
    restarts        \* how many times the host has restarted

uiVars == <<ui>>
registryVars == <<config, accessories, launched, ops, log, runs, cache, restarts>>

vars == <<webhookConfig, charValue, acts, hostOn, posts, resets, event, send,
          uiVars, registryVars>>

----------------------------------------------------------------------------
(* Bounds of the model *)

MaxActivations == 2
MaxLatency == 1

(* Program constants *)

CONTACT_DETECTED == 0
CONTACT_NOT_DETECTED == 1
ResetDelayMs == 1000
RequestTimeoutMs == 10000
maxRedirects == 0
OkStatus == 200

TickMs == ResetDelayMs
ResetDelay == ResetDelayMs \div TickMs
Timeout == RequestTimeoutMs \div TickMs

Entities == {"e1", "e2"}

\* JavaScript's undefined, for an absent optional field.
Undefined == "<undefined>"

\* null, or a value that is no object (an entry of the webhooks list, the
\* payload of a test).
Null == [null |-> TRUE]

\* JavaScript truthiness of a string-or-undefined value.
Truthy(v) == v \notin {Undefined, ""}

----------------------------------------------------------------------------
(* Definitions bound to the entities (accessory.context.webhook) *)

ConfigOf(e) ==
    IF e = "e1"
    THEN [name |-> "Front Door", token |-> "T", text |-> "Hi", id |-> "ABC12345",
          title |-> Undefined, groupType |-> Undefined, iconURL |-> Undefined]
    ELSE [name |-> "Family", token |-> "XYZ789TOKEN123", text |-> "Motion detected",
          id |-> "GRPFAMILY", title |-> "Security", groupType |-> "all",
          iconURL |-> "https://notifyicons.pingie.com/security.png"]

----------------------------------------------------------------------------
(* What the wire can deliver for one POST *)

NoData == [kind |-> "empty", error |-> Undefined, message |-> Undefined, raw |-> ""]
JsonData(err, msg) == [kind |-> "object", error |-> err, message |-> msg, raw |-> ""]
TextData(s) == [kind |-> "string", error |-> Undefined, message |-> Undefined, raw |-> s]

WireResponse(status, text, data) ==
    [kind |-> "response", status |-> status, statusText |-> text, data |-> data,
     code |-> ""]
WireError(code) ==
    [kind |-> "error", status |-> 0, statusText |-> "", data |-> NoData, code |-> code]
WireTimeout ==
    [kind |-> "timeout", status |-> 0, statusText |-> "", data |-> NoData,
     code |-> "ECONNABORTED"]

Statuses == {200, 201, 204, 301, 302, 400, 401, 404, 429, 500, 503}

StatusText(s) ==
    CASE s = 200 -> "OK" [] s = 201 -> "Created" [] s = 204 -> "No Content"
      [] s = 301 -> "Moved Permanently" [] s = 302 -> "Found"
      [] s = 400 -> "Bad Request" [] s = 401 -> "Unauthorized"
      [] s = 404 -> "Not Found" [] s = 429 -> "Too Many Requests"
      [] s = 500 -> "Internal Server Error" [] OTHER -> "Service Unavailable"

ErrorTexts == {Undefined, "", "Invalid token"}
MessageTexts == {Undefined, "The provided token is not valid"}

Bodies ==
    {NoData, TextData("Bad Gateway")}
    \cup {JsonData(e, m) : e \in ErrorTexts, m \in MessageTexts}

\* Every response the send specification tries.
Responses == {WireResponse(s, StatusText(s), d) : s \in Statuses, d \in Bodies}

\* The representative wire results the dispatcher specification tries.
WireResults ==
    { WireResponse(200, "OK", JsonData(Undefined, "Notification sent successfully")),
      WireResponse(302, "Found", NoData),
      WireResponse(401, "Unauthorized",
                   JsonData("Invalid token", "The provided token is not valid")),
      WireResponse(500, "Internal Server Error", JsonData("Server down", Undefined)),
      WireError("ECONNREFUSED") }

----------------------------------------------------------------------------
(* sendNotification *)

validateStatus(status) == status < 500

\* How axios.post settles for a wire result: it resolves with the response
\* when validateStatus accepts the status, and rejects otherwise.
axiosPost(wire) ==
    IF wire.kind = "response"
    THEN IF validateStatus(wire.status)
         THEN [kind |-> "resolve", response |-> wire, message |-> <<>>,
               hasResponse |-> TRUE]
         ELSE [kind |-> "reject", response |-> wire,
               message |-> <<"Request failed with status code ",
                             ToString(wire.status)>>,
               hasResponse |-> TRUE]
    ELSE IF wire.kind = "timeout"
    THEN [kind |-> "reject", response |-> wire,
          message |-> <<"timeout of ", ToString(RequestTimeoutMs), "ms exceeded">>,
          hasResponse |-> FALSE]
    ELSE [kind |-> "reject", response |-> wire, message |-> <<wire.code>>,
          hasResponse |-> FALSE]

\* response.data is truthy unless the body was empty.
DataTruthy(data) ==
    \/ data.kind = "object"
    \/ data.kind = "string" /\ data.raw # ""

\* response.data.error / response.data.message: a property read, undefined on
\* anything but a parsed object.
Field(data, f) ==
    IF data.kind = "object"
    THEN (IF f = "error" THEN data.error ELSE data.message)
    ELSE Undefined

\* The message of the Error thrown for a response whose status is not 200,
\* as the sequence of the parts the template and the += concatenate.
errorMessage(response) ==
    <<"API returned status ", ToString(response.status), ": ", response.statusText>>
    \o (IF DataTruthy(response.data) /\ Truthy(Field(response.data, "error"))
        THEN <<" - ", Field(response.data, "error")>> ELSE <<>>)
    \o (IF DataTruthy(response.data) /\ Truthy(Field(response.data, "message"))
        THEN <<" - ", Field(response.data, "message")>> ELSE <<>>)

\* (variant: every 2xx status passes)
IsOkStatus_2xx(status) == status \in 200..299

\* response.status !== 200 is false.
IsOkStatus(status) == status = OkStatus

\* The result of sendNotification once the POST has settled with `wire`.
sendNotification(wire) ==
    LET r == axiosPost(wire) IN
    IF r.kind = "reject"
    THEN [kind |-> "throw", message |-> r.message, hasResponse |-> r.hasResponse]
    ELSE IF ~IsOkStatus(r.response.status)
    THEN [kind |-> "throw", message |-> errorMessage(r.response), hasResponse |-> TRUE]
    ELSE [kind |-> "return", message |-> <<>>, hasResponse |-> TRUE]

\* The spec's name for a result: Delivered, Rejected(reason), TransportError(reason).
Outcome(result) ==
    IF result.kind = "return" THEN "Delivered"
    ELSE IF result.hasResponse THEN "Rejected"
    ELSE "TransportError"

Contains(msg, part) == \E i \in DOMAIN msg : msg[i] = part


\* (variant: every optional key is written, whatever the definition holds)
payload_allKeys(cfg) ==
    {<<"text", cfg.text>>, <<"title", cfg.title>>,
     <<"groupType", cfg.groupType>>, <<"iconUrl", cfg.iconURL>>}

\* The JSON body sendNotification builds for a definition, as its set of
\* <<key, value>> pairs.
payload(cfg) ==
    {<<"text", cfg.text>>}
    \cup (IF Truthy(cfg.title) THEN {<<"title", cfg.title>>} ELSE {})
    \cup (IF Truthy(cfg.groupType) THEN {<<"groupType", cfg.groupType>>} ELSE {})
    \cup (IF Truthy(cfg.iconURL) THEN {<<"iconUrl", cfg.iconURL>>} ELSE {})

\* (variant: the token also travels in a header)
request_tokenInHeader(cfg) ==
    [method |-> "POST",
     endpoint |-> <<"https://notifypush.pingie.com", "/notify-json/", cfg.id>>,
     params |-> {<<"token", cfg.token>>},
     headers |-> {<<"Content-Type", "application/json">>,
                  <<"Authorization", cfg.token>>},
     body |-> payload(cfg),
     timeout |-> RequestTimeoutMs,
     maxRedirects |-> maxRedirects]

\* The request sendNotification hands to axios.post for a definition.
request(cfg) ==
    [method |-> "POST",
     endpoint |-> <<"https://notifypush.pingie.com", "/notify-json/", cfg.id>>,
     params |-> {<<"token", cfg.token>>},
     headers |-> {<<"Content-Type", "application/json">>},
     body |-> payload(cfg),
     timeout |-> RequestTimeoutMs,
     maxRedirects |-> maxRedirects]

Min(a, b) == IF a < b THEN a ELSE b

\* String.prototype.substring(from, to) for 0 <= from <= to <= length.
substring(str, from, to) == SubSeq(str, from + 1, to)

\* Whether `part` occurs in the string `str`.
IsSubstring(part, str) ==
    \E i \in 1..(Len(str) - Len(part) + 1) : SubSeq(str, i, i + Len(part) - 1) = part

\* A log line is the sequence of its pieces; a piece is the literal text the
\* code writes (lit) and the value it fills in after it (val).
Piece(lit, val) == [lit |-> lit, val |-> val]

\* JSON.stringify(payload): the keys present, in the order they were set,
\* each followed by its value.
stringify(body) ==
    LET Val(k) == (CHOOSE kv \in body : kv[1] = k)[2]
        Has(k) == \E kv \in body : kv[1] = k
        Part(k) == IF Has(k) THEN <<Piece(k, Val(k))>> ELSE <<>>
    IN Part("text") \o Part("title") \o Part("groupType") \o Part("iconUrl")

\* The lines sendNotification writes to the log before it posts.
debugLines(cfg) ==
    << <<Piece("Sending notification to:",
               "https://notifypush.pingie.com/notify-json/" \o cfg.id)>>,
       <<Piece("With token:",
               substring(cfg.token, 0, Min(5, Len(cfg.token))) \o "...")>>,
       <<Piece("Payload:", "")>> \o stringify(payload(cfg)) >>

----------------------------------------------------------------------------
(* The dispatcher: getContactState, setContactState and the reset timer *)

\* (variant: the query reports the value the host holds)
getContactState_stored(e) == charValue[e]

\* getContactState: the value a state query returns for entity e.
getContactState(e) == CONTACT_DETECTED

\* (variant: every request opens)
IsOpenRequest_any(value) == value \in {CONTACT_DETECTED, CONTACT_NOT_DETECTED}

\* The test that opens the branch of setContactState that dispatches.
IsOpenRequest(value) == value = CONTACT_NOT_DETECTED

\* The values the host may request in a set.
Values == {CONTACT_DETECTED, CONTACT_NOT_DETECTED}

\* An invocation of setContactState that took the open branch: it has called
\* sendNotification, which has issued its POST, and is suspended at the await.
NewAct(e) ==
    [ent |-> e, age |-> 0, handler |-> "running", http |-> "inflight",
     posts |-> 1, redirects |-> 0, timer |-> "unset", setAt |-> 0]

\* (variant: the dispatch is started but not awaited, so the call returns
\* with its request in flight)
setContactState_detached(e, value) ==
    IF IsOpenRequest(value)
    THEN [acts |-> Append(acts, [NewAct(e) EXCEPT !.handler = "returned"]),
          posted |-> 1, returned |-> TRUE]
    ELSE [acts |-> acts, posted |-> 0, returned |-> TRUE]

\* (variant: an open request is dropped while an earlier one of the same
\* entity has its request in flight or its timer pending)
setContactState_coalesced(e, value) ==
    IF IsOpenRequest(value) /\ ~\E i \in DOMAIN acts : acts[i].ent = e
    THEN [acts |-> Append(acts, NewAct(e)), posted |-> 1, returned |-> FALSE]
    ELSE [acts |-> acts, posted |-> 0, returned |-> TRUE]

\* (variant: an open request clears the reset timers the entity has pending)
setContactState_clearsTimers(e, value) ==
    IF IsOpenRequest(value)
    THEN LET Kept(a) == ~(a.ent = e /\ a.timer = "pending") IN
         [acts |-> Append(SelectSeq(acts, Kept), NewAct(e)), posted |-> 1,
          returned |-> FALSE]
    ELSE [acts |-> acts, posted |-> 0, returned |-> TRUE]

\* setContactState(value) up to its first suspension point: the invocations
\* after the call, the POSTs it issued, and whether it has already returned
\* to the host.
setContactState(e, value) ==
    IF IsOpenRequest(value)
    THEN [acts |-> Append(acts, NewAct(e)), posted |-> 1, returned |-> FALSE]
    ELSE [acts |-> acts, posted |-> 0, returned |-> TRUE]

\* (variant: no catch, the error of sendNotification leaves the handler)
resume_rethrow(a, result) ==
    IF result.kind = "throw"
    THEN [a EXCEPT !.http = "settled", !.handler = "threw"]
    ELSE [a EXCEPT !.http = "settled", !.handler = "returned",
                   !.timer = "pending", !.setAt = a.age]

\* (variant: setTimeout inside the try, after the await)
resume_timerInTry(a, result) ==
    IF result.kind = "throw"
    THEN [a EXCEPT !.http = "settled", !.handler = "returned"]
    ELSE [a EXCEPT !.http = "settled", !.handler = "returned",
                   !.timer = "pending", !.setAt = a.age]

\* setContactState from the settled await to its end: the try/catch logs the
\* result either way, setTimeout arms the reset, and the handler returns.
resume(a, result) ==
    [a EXCEPT !.http = "settled", !.handler = "returned",
              !.timer = "pending", !.setAt = a.age]

\* (variant: one redirect is followed)
FollowsRedirect_once(a, wire) ==
    /\ wire.kind = "response"
    /\ wire.status \in 300..399
    /\ a.redirects < maxRedirects + 1

\* Whether the transport answers a 3xx by a further request (maxRedirects).
FollowsRedirect(a, wire) ==
    /\ wire.kind = "response"
    /\ wire.status \in 300..399
    /\ a.redirects < maxRedirects

RECURSIVE SumOver(_, _)
SumOver(f, S) ==
    IF S = {} THEN 0
    ELSE LET x == CHOOSE y \in S : TRUE IN f[x] + SumOver(f, S \ {x})

Slots == DOMAIN acts

RemoveAt(s, i) == SubSeq(s, 1, i - 1) \o SubSeq(s, i + 1, Len(s))

InFlight(a) == a.http = "inflight"
TimerPending(a) == a.timer = "pending"
Live(a) == InFlight(a) \/ TimerPending(a)

\* (variant: the constructor writes the open value)
constructorWrite_open(e) == CONTACT_NOT_DETECTED

\* The value the constructor writes to the characteristic of its entity.
constructorWrite(e) == CONTACT_DETECTED

\* (variant: the reset timer writes the value that was requested)
timerWrite_requested(a) == CONTACT_NOT_DETECTED

\* The value the reset timer of an invocation writes.
timerWrite(a) == CONTACT_DETECTED

\* (variant: the request has no timeout)
TimeoutDue_never(a) == InFlight(a) /\ a.age < 0

TimeoutDue(a) == InFlight(a) /\ a.age >= Timeout
TimerDue(a) == TimerPending(a) /\ a.age >= a.setAt + ResetDelay

NoEvent ==
    [kind |-> "none", ent |-> "none", value |-> CONTACT_DETECTED,
     outcome |-> "none", status |-> 0, slot |-> 0, age |-> 0]
NoSend == [pc |-> "idle"]
NoUi == [pc |-> "idle"]

\* The settings UI server and the platform at rest.
UiIdle == ui = NoUi
RegistryIdle ==
    /\ config = [type |-> "array", items |-> <<ConfigOf("e1"), ConfigOf("e2")>>]
    /\ accessories = <<>>
    /\ launched = 0
    /\ ops = <<>>
    /\ log = <<>>
    /\ runs = 0
    /\ cache = <<>>
    /\ restarts = 0

Init ==
    /\ webhookConfig = [e \in Entities |-> ConfigOf(e)]
    /\ charValue = [e \in Entities |-> constructorWrite(e)]
    /\ acts = <<>>
    /\ hostOn = [e \in Entities |-> 0]
    /\ posts = [e \in Entities |-> 0]
    /\ resets = [e \in Entities |-> 0]
    /\ event = NoEvent
    /\ send = NoSend
    /\ UiIdle
    /\ RegistryIdle

\* The host asks for the state of e (onGet).
GetContactState(e) ==
    /\ event' = [NoEvent EXCEPT !.kind = "get", !.ent = e,
                                !.value = getContactState(e)]
    /\ UNCHANGED <<webhookConfig, charValue, acts, hostOn, posts, resets, send,
                 uiVars, registryVars>>

\* The host requests `value` for e (onSet); once the handler has returned
\* without an error the host holds the requested value.
SetContactState(e, value) ==
    LET r == setContactState(e, value) IN
    /\ value = CONTACT_NOT_DETECTED => SumOver(hostOn, Entities) < MaxActivations
    /\ hostOn' = IF value = CONTACT_NOT_DETECTED
                 THEN [hostOn EXCEPT ![e] = @ + 1] ELSE hostOn
    /\ acts' = r.acts
    /\ posts' = [posts EXCEPT ![e] = @ + r.posted]
    /\ charValue' = IF r.returned THEN [charValue EXCEPT ![e] = value] ELSE charValue
    /\ event' = IF value = CONTACT_NOT_DETECTED THEN NoEvent
                ELSE [NoEvent EXCEPT !.kind = "set", !.ent = e, !.value = value]
    /\ UNCHANGED <<webhookConfig, resets, send,
                 uiVars, registryVars>>

\* The POST of invocation i settles with `wire`.
Settle(i, wire) ==
    LET a == acts[i] IN
    IF FollowsRedirect(a, wire)
    THEN /\ acts' = [acts EXCEPT ![i].posts = @ + 1, ![i].redirects = @ + 1]
         /\ posts' = [posts EXCEPT ![a.ent] = @ + 1]
         /\ event' = NoEvent
         /\ UNCHANGED charValue
    ELSE LET result == sendNotification(wire)
             b == resume(a, result)
         IN
         /\ acts' = [acts EXCEPT ![i] = b]
         /\ UNCHANGED posts
         /\ event' = [kind |-> "settle", ent |-> a.ent, value |-> CONTACT_NOT_DETECTED,
                      outcome |-> Outcome(result), status |-> wire.status,
                      slot |-> i, age |-> a.age]
         /\ charValue' = IF b.handler = "returned" /\ a.handler = "running"
                         THEN [charValue EXCEPT ![a.ent] = CONTACT_NOT_DETECTED]
                         ELSE charValue

\* The remote service, or the network, answers the POST of invocation i; an
\* answer comes within MaxLatency ticks or not at all.
Respond(i, wire) ==
    /\ i \in Slots
    /\ InFlight(acts[i])
    /\ acts[i].age <= MaxLatency
    /\ Settle(i, wire)
    /\ UNCHANGED <<webhookConfig, hostOn, resets, send,
                 uiVars, registryVars>>

\* No answer within the request timeout: axios aborts the request.
RequestTimeout(i) ==
    /\ i \in Slots
    /\ TimeoutDue(acts[i])
    /\ Settle(i, WireTimeout)
    /\ UNCHANGED <<webhookConfig, hostOn, resets, send,
                 uiVars, registryVars>>

\* (variant: the characteristic is one for all entities, so a reset closes
\* every entity)
Fire_resetsAll(i) ==
    /\ i \in Slots
    /\ TimerDue(acts[i])
    /\ acts' = RemoveAt(acts, i)
    /\ charValue' = [e \in Entities |-> timerWrite(acts[i])]
    /\ resets' = [resets EXCEPT ![acts[i].ent] = @ + 1]
    /\ event' = [NoEvent EXCEPT !.kind = "reset", !.ent = acts[i].ent,
                                !.value = timerWrite(acts[i]), !.slot = i,
                                !.age = acts[i].age]
    /\ UNCHANGED <<webhookConfig, hostOn, posts, send,
                 uiVars, registryVars>>

\* The setTimeout callback of invocation i: updateCharacteristic(closed).
\* Nothing of the invocation is left once its timer has run.
Fire(i) ==
    /\ i \in Slots
    /\ TimerDue(acts[i])
    /\ acts' = RemoveAt(acts, i)
    /\ charValue' = [charValue EXCEPT ![acts[i].ent] = timerWrite(acts[i])]
    /\ resets' = [resets EXCEPT ![acts[i].ent] = @ + 1]
    /\ event' = [NoEvent EXCEPT !.kind = "reset", !.ent = acts[i].ent,
                                !.value = timerWrite(acts[i]), !.slot = i,
                                !.age = acts[i].age]
    /\ UNCHANGED <<webhookConfig, hostOn, posts, send,
                 uiVars, registryVars>>

\* One tick of time passes; nothing that is due is left behind.
Tick ==
    /\ \E i \in Slots : Live(acts[i])
    /\ \A i \in Slots : ~TimeoutDue(acts[i]) /\ ~TimerDue(acts[i])
    /\ acts' = [i \in Slots |->
                  IF Live(acts[i]) THEN [acts[i] EXCEPT !.age = @ + 1] ELSE acts[i]]
    /\ event' = NoEvent
    /\ UNCHANGED <<webhookConfig, charValue, hostOn, posts, resets, send,
                 uiVars, registryVars>>

Next ==
    \/ \E e \in Entities : GetContactState(e)
    \/ \E e \in Entities, v \in Values : SetContactState(e, v)
    \/ \E i \in 1..MaxActivations, w \in WireResults : Respond(i, w)
    \/ \E i \in 1..MaxActivations : RequestTimeout(i)
    \/ \E i \in 1..MaxActivations : Fire(i)
    \/ Tick

Spec == Init /\ [][Next]_vars

\* The host keeps time running, every request settles and every timer runs.
Fairness ==
    /\ WF_vars(Tick)
    /\ \A i \in 1..MaxActivations : WF_vars(RequestTimeout(i)) /\ WF_vars(Fire(i))

FairSpec == Spec /\ Fairness

----------------------------------------------------------------------------
(* The switch dispatcher of dist/ next to the contact-sensor dispatcher *)

\* The values of JavaScript the On characteristic is set to: the booleans,
\* and numbers.
SwitchOn == [bool |-> TRUE]
SwitchOff == [bool |-> FALSE]
Number(n) == [num |-> n]

\* if (value): whether a value is truthy.
jsTruthy(x) == IF "bool" \in DOMAIN x THEN x.bool ELSE x.num # 0

\* getOn(): the switch always reports off.
getOn(e) == SwitchOff

\* setOn(value) up to its first suspension point: any truthy value starts a
\* dispatch.
setOn(e, value) ==
    IF jsTruthy(value)
    THEN [acts |-> Append(acts, NewAct(e)), posted |-> 1, returned |-> FALSE]
    ELSE [acts |-> acts, posted |-> 0, returned |-> TRUE]

\* The values the host may hand to the handler of the contact sensor: closed,
\* opened, and a value that is neither.
HostValues == {CONTACT_DETECTED, CONTACT_NOT_DETECTED, 2}

\* The same request as the switch gets it: opened is on, closed is off, any
\* other value is itself.
toSwitch(v) ==
    IF v = CONTACT_NOT_DETECTED THEN SwitchOn
    ELSE IF v = CONTACT_DETECTED THEN SwitchOff
    ELSE Number(v)

\* The host hands the same value to the contact sensor e1 and to the switch
\* e2, each in its own terms.
PairSet(v) ==
    LET c == setContactState("e1", v)
        s == setOn("e2", toSwitch(v))
    IN
    /\ c.posted + s.posted > 0 => SumOver(hostOn, Entities) + 2 <= MaxActivations
    /\ acts' = c.acts \o SubSeq(s.acts, Len(acts) + 1, Len(s.acts))
    /\ posts' = [posts EXCEPT !["e1"] = @ + c.posted, !["e2"] = @ + s.posted]
    /\ hostOn' = [hostOn EXCEPT !["e1"] = @ + c.posted, !["e2"] = @ + s.posted]
    /\ charValue' = [e \in Entities |->
                       IF (e = "e1" /\ c.returned) \/ (e = "e2" /\ s.returned)
                       THEN v ELSE charValue[e]]
    /\ event' = [NoEvent EXCEPT !.kind = "set", !.ent = "e1", !.value = v]
    /\ UNCHANGED <<webhookConfig, resets, send, uiVars, registryVars>>

PairNext ==
    \/ \E v \in HostValues : PairSet(v)
    \/ \E i \in 1..MaxActivations, w \in WireResults : Respond(i, w)
    \/ \E i \in 1..MaxActivations : RequestTimeout(i)
    \/ \E i \in 1..MaxActivations : Fire(i)
    \/ Tick

PairSpec == Init /\ [][PairNext]_vars

----------------------------------------------------------------------------
(* One call of sendNotification, from the request to the result *)

SendWires == Responses \cup {WireError("ECONNREFUSED"), WireTimeout}

\* The definitions the send specification binds to the first entity: every
\* required field is set, as discoverDevices demands, and the optional ones
\* are absent, empty or set.
Tokens == {"T", "abcde", "XYZ789TOKEN123"}

Definitions ==
    [name : {"Front Door"}, token : Tokens, text : {"Hi"}, id : {"ABC12345"},
     title : {Undefined, "", "Security"}, groupType : {Undefined, "all"},
     iconURL : {Undefined, "https://notifyicons.pingie.com/door.png"}]

SendInit ==
    /\ \E d \in Definitions :
          webhookConfig = [e \in Entities |-> IF e = "e1" THEN d ELSE ConfigOf(e)]
    /\ UiIdle
    /\ RegistryIdle
    /\ charValue = [e \in Entities |-> constructorWrite(e)]
    /\ acts = <<>>
    /\ hostOn = [e \in Entities |-> 0]
    /\ posts = [e \in Entities |-> 0]
    /\ resets = [e \in Entities |-> 0]
    /\ event = NoEvent
    /\ \E e \in Entities, w \in SendWires :
          send = [pc |-> "call", ent |-> e, wire |-> w,
                  request |-> [method |-> "none"], log |-> <<>>,
                  result |-> [kind |-> "none"]]

\* sendNotification builds its request and hands it to axios.post.
SendPost ==
    /\ send.pc = "call"
    /\ send' = [send EXCEPT !.pc = "posted",
                            !.request = request(webhookConfig[send.ent]),
                            !.log = debugLines(webhookConfig[send.ent])]
    /\ UNCHANGED <<webhookConfig, charValue, acts, hostOn, posts, resets, event,
                 uiVars, registryVars>>

\* The POST settles and sendNotification returns or throws.
SendSettle ==
    /\ send.pc = "posted"
    /\ send' = [send EXCEPT !.pc = "done", !.result = sendNotification(send.wire)]
    /\ UNCHANGED <<webhookConfig, charValue, acts, hostOn, posts, resets, event,
                 uiVars, registryVars>>

SendNext == SendPost \/ SendSettle

SendSpec == SendInit /\ [][SendNext]_vars

----------------------------------------------------------------------------
(* The settings UI server: testWebhook and makeHttpsRequest *)

\* encodeURIComponent over the characters the model's tokens use: letters and
\* digits stay, the others become their percent escape.
RECURSIVE encodeURIComponent(_)
encodeURIComponent(str) ==
    IF Len(str) = 0 THEN ""
    ELSE LET c == SubSeq(str, 1, 1)
             enc == CASE c = " " -> "%20" [] c = "&" -> "%26" [] c = "=" -> "%3D"
                      [] c = "+" -> "%2B" [] OTHER -> c
         IN enc \o encodeURIComponent(SubSeq(str, 2, Len(str)))

\* The body testWebhook builds from the payload the UI sent.
apiPayload(p) ==
    {<<"text", p.text>>}
    \cup (IF Truthy(p.title) THEN {<<"title", p.title>>} ELSE {})
    \cup (IF Truthy(p.groupType) THEN {<<"groupType", p.groupType>>} ELSE {})
    \cup (IF Truthy(p.iconURL) THEN {<<"iconUrl", p.iconURL>>} ELSE {})

\* The options and body makeHttpsRequest hands to https.request.
httpsRequest(id, token, body) ==
    [method |-> "POST",
     hostname |-> "notifypush.pingie.com",
     port |-> 443,
     path |-> <<"/notify-json/", id, "?token=", encodeURIComponent(token)>>,
     headers |-> {<<"Content-Type", "application/json">>,
                  <<"Content-Length", "Buffer.byteLength(postData)">>},
     body |-> body]

UiResult(success, message, error) ==
    [kind |-> "return", success |-> success, message |-> message, error |-> error]

\* a || b || c of JavaScript over strings and undefined.
OrElse(a, b) == IF Truthy(a) THEN a ELSE b

\* The error text makeHttpsRequest reports for a response that is not 200.
uiErrorMessage(wire) ==
    LET bare == "HTTP " \o ToString(wire.status) IN
    IF wire.data.kind = "object"
    THEN OrElse(wire.data.message, OrElse(wire.data.error, bare))
    ELSE IF wire.data.kind = "string" /\ wire.data.raw # ""
    THEN wire.data.raw
    ELSE bare

\* What the promise of makeHttpsRequest settles to for a wire result.
makeHttpsRequest(wire) ==
    IF wire.kind = "response"
    THEN IF wire.status = OkStatus
         THEN [kind |-> "resolve",
               value |-> UiResult(TRUE, "Notification sent successfully!", Undefined)]
         ELSE [kind |-> "resolve",
               value |-> UiResult(FALSE, Undefined, uiErrorMessage(wire))]
    ELSE [kind |-> "reject", value |-> [name |-> "Error", message |-> wire.code]]

\* (variant: testWebhook has no catch)
catchError_rethrow(error) == [kind |-> "throw", error |-> error]

\* The catch of testWebhook: the result it returns for an error thrown in
\* its body or by the awaited request.
catchError(error) == UiResult(FALSE, Undefined, error.message)

\* testWebhook from the settled await to its return.
resumeTestWebhook(settled) ==
    IF settled.kind = "resolve" THEN settled.value ELSE catchError(settled.value)

\* testWebhook up to its await: the result it returns at once for a payload
\* that lacks a required field (or is no object at all, which throws into
\* the catch), or the request it issues.
testWebhook(p) ==
    IF p = Null
    THEN [posted |-> FALSE,
          result |-> catchError([name |-> "TypeError",
                       message |-> "Cannot read properties of undefined (reading 'token')"])]
    ELSE IF ~Truthy(p.token) \/ ~Truthy(p.text)
    THEN [posted |-> FALSE,
          result |-> UiResult(FALSE, Undefined,
                              "Missing required fields: token and text are required")]
    ELSE IF ~Truthy(p.id)
    THEN [posted |-> FALSE, result |-> UiResult(FALSE, Undefined, "ID is required")]
    ELSE [posted |-> TRUE, request |-> httpsRequest(p.id, p.token, apiPayload(p))]

\* The payloads the UI may send: each required field absent, empty or set.
UiPayloads ==
    [token : {Undefined, "T", "a b&c"}, text : {Undefined, "", "Hi"},
     id : {Undefined, "ABC12345"}, title : {Undefined, "Security"},
     groupType : {Undefined}, iconURL : {Undefined, "https://notifyicons.pingie.com/door.png"}]

\* https.request sets no timeout: a request ends with a response or an error.
UiWires == Responses \cup {WireError("ECONNREFUSED")}

UiInit ==
    /\ webhookConfig = [e \in Entities |-> ConfigOf(e)]
    /\ charValue = [e \in Entities |-> constructorWrite(e)]
    /\ acts = <<>>
    /\ hostOn = [e \in Entities |-> 0]
    /\ posts = [e \in Entities |-> 0]
    /\ resets = [e \in Entities |-> 0]
    /\ event = NoEvent
    /\ send = NoSend
    /\ RegistryIdle
    /\ \E p \in UiPayloads \cup {Null}, w \in UiWires :
          ui = [pc |-> "call", payload |-> p, wire |-> w,
                request |-> [method |-> "none"], result |-> [kind |-> "none"]]

\* The UI calls testWebhook: it validates the payload and either returns or
\* issues the request and awaits it.
UiTestWebhook ==
    /\ ui.pc = "call"
    /\ LET r == testWebhook(ui.payload) IN
         ui' = IF r.posted
               THEN [ui EXCEPT !.pc = "posted", !.request = r.request]
               ELSE [ui EXCEPT !.pc = "done", !.result = r.result]
    /\ UNCHANGED <<webhookConfig, charValue, acts, hostOn, posts, resets, event, send,
                   registryVars>>

\* The request settles: testWebhook returns what makeHttpsRequest resolved
\* to, or the result its catch builds from the error.
UiSettle ==
    /\ ui.pc = "posted"
    /\ ui' = [ui EXCEPT !.pc = "done", !.result = resumeTestWebhook(makeHttpsRequest(ui.wire))]
    /\ UNCHANGED <<webhookConfig, charValue, acts, hostOn, posts, resets, event, send,
                   registryVars>>

UiNext == UiTestWebhook \/ UiSettle

UiSpec == UiInit /\ [][UiNext]_vars

----------------------------------------------------------------------------
(* The test of a definition next to its dispatch *)

\* The definitions tested: every required field is set, the token with and
\* without characters that need an escape in a URL.
TestDefinitions ==
    [name : {"Front Door"}, token : {"T", "a b&c"}, text : {"Hi"},
     id : {"ABC12345", "GRPFAMILY"}, title : {Undefined, "", "Security"},
     groupType : {Undefined, "all"},
     iconURL : {Undefined, "https://notifyicons.pingie.com/door.png"}]

\* The payload the settings UI sends to test a definition.
TestPayload(d) ==
    [token |-> d.token, text |-> d.text, id |-> d.id, title |-> d.title,
     groupType |-> d.groupType, iconURL |-> d.iconURL]

\* A definition is bound to the first entity; its dispatcher is about to call
\* sendNotification and the UI server is about to test it, and the service
\* gives both the same answer.
TestInit ==
    /\ \E d \in TestDefinitions, w \in UiWires :
          /\ webhookConfig = [e \in Entities |-> IF e = "e1" THEN d ELSE ConfigOf(e)]
          /\ send = [pc |-> "call", ent |-> "e1", wire |-> w,
                     request |-> [method |-> "none"], log |-> <<>>,
                     result |-> [kind |-> "none"]]
          /\ ui = [pc |-> "call", payload |-> TestPayload(d), wire |-> w,
                   request |-> [method |-> "none"], result |-> [kind |-> "none"]]
    /\ RegistryIdle
    /\ charValue = [e \in Entities |-> constructorWrite(e)]
    /\ acts = <<>>
    /\ hostOn = [e \in Entities |-> 0]
    /\ posts = [e \in Entities |-> 0]
    /\ resets = [e \in Entities |-> 0]
    /\ event = NoEvent

TestNext == SendPost \/ SendSettle \/ UiTestWebhook \/ UiSettle

TestSpec == TestInit /\ [][TestNext]_vars

----------------------------------------------------------------------------
(* The platform: configureAccessory, didFinishLaunching, discoverDevices *)

MaxWebhooks == 3
MaxRestarts == 1

Webhook(name, token, text, id, title) ==
    [name |-> name, token |-> token, text |-> text, id |-> id,
     title |-> title, groupType |-> Undefined, iconURL |-> Undefined]

\* The entries a webhooks list is made of: valid definitions (two of them
\* with the same name), definitions that lack one or several required
\* fields, and null.
Entries ==
    { Webhook("Front Door", "T", "Hi", "ABC12345", Undefined),
      Webhook("Front Door", "T2", "Door opened", "DEF67890", "Security"),
      Webhook("Family", "XYZ789TOKEN123", "Motion detected", "GRPFAMILY", Undefined),
      Webhook(Undefined, Undefined, "Hi", "ABC12345", Undefined),
      Webhook("Bell", "", Undefined, "ABC12345", Undefined),
      Webhook("Bell", "T", Undefined, Undefined, Undefined),
      Webhook("Bell", "T", "Ring", "", Undefined),
      Null }

\* The values this.config.webhooks may hold: a list of entries, nothing, or
\* something that is not a list.
Configs ==
    {[type |-> "array", items |-> l] :
        l \in UNION {[1..n -> Entries] : n \in 0..MaxWebhooks}}
    \cup {[type |-> "undefined", items |-> <<>>], [type |-> "object", items |-> <<>>]}

\* api.hap.uuid.generate: the identifier is computed from the name alone.
generate(name) == "uuid(" \o name \o ")"

\* An accessory object: its identifier, its display name, the definition in
\* its context and what the host keeps about it (room, scenes).
Accessory(name, uuid, webhook, meta) ==
    [UUID |-> uuid, displayName |-> name, webhook |-> webhook, meta |-> meta]

\* The accessories the host may have in its cache.
Cached ==
    { Accessory("Front Door", generate("Front Door"),
                Webhook("Front Door", "OLDTOKEN", "Old text", "OLD00000", "Old title"),
                "Hallway"),
      Accessory("Garage", generate("Garage"),
                Webhook("Garage", "T", "Garage opened", "ABC12345", Undefined),
                "Garage room") }

LogLine(level, text) == [level |-> level, text |-> text]

\* (variant: the id is checked before the other fields)
validate_idFirst(webhook) ==
    IF webhook = Null THEN "null"
    ELSE IF ~Truthy(webhook.id) THEN "id"
    ELSE IF ~Truthy(webhook.name) THEN "name"
    ELSE IF ~Truthy(webhook.token) THEN "token"
    ELSE IF ~Truthy(webhook.text) THEN "text"
    ELSE "ok"

\* The checks at the head of the loop body of discoverDevices, in their
\* order: which one makes it skip the entry, or "ok".
validate(webhook) ==
    IF webhook = Null THEN "null"
    ELSE IF ~Truthy(webhook.name) THEN "name"
    ELSE IF ~Truthy(webhook.token) THEN "token"
    ELSE IF ~Truthy(webhook.text) THEN "text"
    ELSE IF ~Truthy(webhook.id) THEN "id"
    ELSE "ok"

\* The lines the loop body logs for an entry it skips.
skipLines(webhook, missing) ==
    CASE missing = "null" ->
           <<LogLine("warn", <<"Skipping null or undefined webhook entry in configuration">>)>>
      [] missing = "name" ->
           <<LogLine("error", <<"Webhook configuration is missing ", "name">>),
             LogLine("error", <<"Please add a \"name\" field to your webhook configuration">>)>>
      [] missing = "token" ->
           <<LogLine("error", <<"Webhook \"", webhook.name, "\" is missing ", "token">>),
             LogLine("error", <<"Get your token from the Notify app settings">>)>>
      [] missing = "text" ->
           <<LogLine("error", <<"Webhook \"", webhook.name, "\" is missing ", "text">>),
             LogLine("error", <<"Add a \"text\" field with your notification message">>)>>
      [] OTHER ->
           <<LogLine("error", <<"Webhook \"", webhook.name, "\" is missing ", "id">>),
             LogLine("error", <<"Add an \"id\" field with your Device ID or Group ID (groups start with GRP)">>),
             LogLine("error", <<"Example device: \"ABC12345\", Example group: \"GRPFAMILY\"">>)>>

\* (variant: the cached accessory is looked up by its display name)
find_byName(accs, uuid) ==
    IF \E i \in DOMAIN accs : accs[i].displayName = uuid
    THEN CHOOSE i \in DOMAIN accs :
             /\ accs[i].displayName = uuid
             /\ \A j \in 1..(i - 1) : accs[j].displayName # uuid
    ELSE 0

\* this.accessories.find(accessory => accessory.UUID === uuid): the index of
\* the first match, 0 for undefined.
find(accs, uuid) ==
    IF \E i \in DOMAIN accs : accs[i].UUID = uuid
    THEN CHOOSE i \in DOMAIN accs :
             /\ accs[i].UUID = uuid
             /\ \A j \in 1..(i - 1) : accs[j].UUID # uuid
    ELSE 0

\* new NotifyWebhookAccessory(platform, accessory): the dispatcher holds the
\* definition the context of the accessory holds at that moment, its handlers
\* are set on the characteristic, the idle value is written, and no request
\* is made.
NotifyWebhookAccessory(acc) ==
    [webhookConfig |-> acc.webhook, state |-> constructorWrite(acc.UUID),
     requests |-> 0]

\* What the platform did to or for the host, in order.
Create(uuid, name) == [op |-> "create", UUID |-> uuid, name |-> name, webhook |-> Null]
Attach(acc) ==
    LET dispatcher == NotifyWebhookAccessory(acc) IN
    [op |-> "attach", UUID |-> acc.UUID, name |-> acc.displayName,
     webhook |-> dispatcher.webhookConfig, state |-> dispatcher.state,
     requests |-> dispatcher.requests]
Register(acc) ==
    [op |-> "register", UUID |-> acc.UUID, name |-> acc.displayName,
     webhook |-> acc.webhook]

\* The registry as the loop of discoverDevices carries it along.
RegState(accs, o, l) == [accessories |-> accs, ops |-> o, log |-> l]

\* (variant: the definition is merged into the previous one, so a field the
\* new definition lacks keeps its previous value)
restore_merge(st, webhook, i) ==
    LET old == st.accessories[i].webhook
        merged == [f \in DOMAIN webhook |->
                      IF Truthy(webhook[f]) THEN webhook[f] ELSE old[f]]
        existingAccessory == [st.accessories[i] EXCEPT !.webhook = merged]
    IN RegState([st.accessories EXCEPT ![i] = existingAccessory],
                Append(st.ops, Attach(existingAccessory)),
                Append(st.log, LogLine("info", <<"Restoring existing accessory from cache:",
                                                 st.accessories[i].displayName>>)))

\* (variant: the dispatcher is made before the context gets the definition)
restore_attachFirst(st, webhook, i) ==
    LET existingAccessory == [st.accessories[i] EXCEPT !.webhook = webhook] IN
    RegState([st.accessories EXCEPT ![i] = existingAccessory],
             Append(st.ops, Attach(st.accessories[i])),
             Append(st.log, LogLine("info", <<"Restoring existing accessory from cache:",
                                              st.accessories[i].displayName>>)))

\* The branch for a definition whose identifier is found among the restored
\* accessories: the context gets the definition and a dispatcher is attached.
restore(st, webhook, i) ==
    LET existingAccessory == [st.accessories[i] EXCEPT !.webhook = webhook] IN
    RegState([st.accessories EXCEPT ![i] = existingAccessory],
             Append(st.ops, Attach(existingAccessory)),
             Append(st.log, LogLine("info", <<"Restoring existing accessory from cache:",
                                              st.accessories[i].displayName>>)))

\* (variant: the new accessory is registered before its dispatcher is made)
addNew_registerFirst(st, webhook, uuid) ==
    LET accessory == Accessory(webhook.name, uuid, webhook, Undefined) IN
    RegState(st.accessories,
             st.ops \o <<Create(uuid, webhook.name), Register(accessory),
                         Attach(accessory)>>,
             Append(st.log, LogLine("info", <<"Adding new accessory:", webhook.name>>)))

\* (variant: the new accessory is not registered with the host)
addNew_noRegister(st, webhook, uuid) ==
    LET accessory == Accessory(webhook.name, uuid, webhook, Undefined) IN
    RegState(st.accessories,
             st.ops \o <<Create(uuid, webhook.name), Attach(accessory)>>,
             Append(st.log, LogLine("info", <<"Adding new accessory:", webhook.name>>)))

\* The branch for a definition whose identifier is not found: a new accessory
\* is made, gets the definition and a dispatcher, and is registered.
addNew(st, webhook, uuid) ==
    LET accessory == Accessory(webhook.name, uuid, webhook, Undefined) IN
    RegState(st.accessories,
             st.ops \o <<Create(uuid, webhook.name), Attach(accessory),
                         Register(accessory)>>,
             Append(st.log, LogLine("info", <<"Adding new accessory:", webhook.name>>)))

\* (variant: the identifier is generated from the id of the definition)
processWebhook_uuidFromId(st, webhook) ==
    LET missing == validate(webhook) IN
    IF missing # "ok"
    THEN [st EXCEPT !.log = @ \o skipLines(webhook, missing)]
    ELSE LET uuid == generate(webhook.id)
             i == find(st.accessories, uuid)
         IN IF i # 0 THEN restore(st, webhook, i) ELSE addNew(st, webhook, uuid)

\* The body of the loop of discoverDevices for one entry.
processWebhook(st, webhook) ==
    LET missing == validate(webhook) IN
    IF missing # "ok"
    THEN [st EXCEPT !.log = @ \o skipLines(webhook, missing)]
    ELSE LET uuid == generate(webhook.name)
             i == find(st.accessories, uuid)
         IN IF i # 0 THEN restore(st, webhook, i) ELSE addNew(st, webhook, uuid)

\* (variant: an entry that fails a check ends the loop)
RECURSIVE forEach_returnOnInvalid(_, _, _)
forEach_returnOnInvalid(items, i, st) ==
    IF i > Len(items) THEN st
    ELSE IF validate(items[i]) # "ok" THEN processWebhook(st, items[i])
    ELSE forEach_returnOnInvalid(items, i + 1, processWebhook(st, items[i]))

\* for (const webhook of this.config.webhooks), from entry i on.
RECURSIVE forEach(_, _, _)
forEach(items, i, st) ==
    IF i > Len(items) THEN st
    ELSE forEach(items, i + 1, processWebhook(st, items[i]))

\* (variant: without a list the restored accessories are dropped)
discoverDevices_dropsWithoutList(cfg, st) ==
    IF cfg.type # "array"
    THEN [st EXCEPT !.accessories = <<>>,
                    !.log = Append(@, LogLine("warn",
              <<"No webhooks configured. Please add webhooks to your config.">>))]
    ELSE forEach(cfg.items, 1, st)

\* (variant: accessories no valid declared definition names are removed)
discoverDevices_withRemoval(cfg, st) ==
    IF cfg.type # "array"
    THEN [st EXCEPT !.log = Append(@, LogLine("warn",
              <<"No webhooks configured. Please add webhooks to your config.">>))]
    ELSE LET done == forEach(cfg.items, 1, st)
             Declared(a) == \E o \in DOMAIN done.ops : done.ops[o].UUID = a.UUID
         IN [done EXCEPT !.accessories = SelectSeq(@, Declared)]

\* discoverDevices, from the registry st.
discoverDevices(cfg, st) ==
    IF cfg.type # "array"
    THEN [st EXCEPT !.log = Append(@, LogLine("warn",
              <<"No webhooks configured. Please add webhooks to your config.">>))]
    ELSE forEach(cfg.items, 1, st)

\* The orders in which the host may hold accessories in its cache at its
\* first start.
Caches ==
    {<<>>} \cup {<<a>> : a \in Cached}
    \cup {<<ab[1], ab[2]>> : ab \in {x \in Cached \X Cached : x[1] # x[2]}}

\* (variant: the constructor runs discoverDevices itself)
constructor_discoversAtOnce(cfg) ==
    [st |-> discoverDevices(cfg, RegState(<<>>, <<>>,
                <<LogLine("debug", <<"Finished initializing platform:">>)>>)),
     runs |-> 1]

\* The platform after its constructor: no accessory, nothing done, one log
\* line; discoverDevices is left to the didFinishLaunching callback.
constructor(cfg) ==
    [st |-> RegState(<<>>, <<>>,
                     <<LogLine("debug", <<"Finished initializing platform:">>)>>),
     runs |-> 0]

\* The callback the constructor registers for didFinishLaunching.
onDidFinishLaunching(cfg, st, n) ==
    [st |-> discoverDevices(cfg,
                [st EXCEPT !.log = Append(@, LogLine("debug",
                                     <<"Executed didFinishLaunching callback">>))]),
     runs |-> n + 1]

RegInit ==
    /\ webhookConfig = [e \in Entities |-> ConfigOf(e)]
    /\ charValue = [e \in Entities |-> constructorWrite(e)]
    /\ acts = <<>>
    /\ hostOn = [e \in Entities |-> 0]
    /\ posts = [e \in Entities |-> 0]
    /\ resets = [e \in Entities |-> 0]
    /\ event = NoEvent
    /\ send = NoSend
    /\ UiIdle
    /\ config \in Configs
    /\ cache \in Caches
    /\ restarts = 0
    /\ launched = 0
    /\ LET p == constructor(config) IN
          /\ accessories = p.st.accessories
          /\ ops = p.st.ops
          /\ log = p.st.log
          /\ runs = p.runs

\* The host restores the next accessory of its cache (configureAccessory); it
\* does so before it signals didFinishLaunching, once per cached accessory.
ConfigureAccessory(accessory) ==
    /\ launched = 0
    /\ cache # <<>>
    /\ accessory = Head(cache)
    /\ cache' = Tail(cache)
    /\ log' = Append(log, LogLine("info", <<"Loading accessory from cache:",
                                            accessory.displayName>>))
    /\ accessories' = Append(accessories, accessory)
    /\ UNCHANGED <<webhookConfig, charValue, acts, hostOn, posts, resets, event, send,
                   uiVars, config, launched, ops, runs, restarts>>

\* The host has restored its cache and signals didFinishLaunching: the
\* callback runs discoverDevices.
DidFinishLaunching ==
    /\ launched = 0
    /\ cache = <<>>
    /\ LET r == onDidFinishLaunching(config, RegState(accessories, ops, log), runs)
       IN /\ accessories' = r.st.accessories
          /\ ops' = r.st.ops
          /\ log' = r.st.log
          /\ runs' = r.runs
    /\ launched' = launched + 1
    /\ UNCHANGED <<webhookConfig, charValue, acts, hostOn, posts, resets, event, send,
                   uiVars, config, cache, restarts>>

\* The accessories the host has been given by registerPlatformAccessories.
RECURSIVE registered(_)
registered(o) ==
    IF o = <<>> THEN <<>>
    ELSE (IF Head(o).op = "register"
          THEN <<Accessory(Head(o).name, Head(o).UUID, Head(o).webhook, Undefined)>>
          ELSE <<>>) \o registered(Tail(o))

\* The host restarts with the same configuration: its cache holds the
\* accessories it restored before and those registered since, and the
\* platform is constructed anew.
Restart ==
    /\ launched > 0
    /\ restarts < MaxRestarts
    /\ restarts' = restarts + 1
    /\ cache' = accessories \o registered(ops)
    /\ launched' = 0
    /\ LET p == constructor(config) IN
          /\ accessories' = p.st.accessories
          /\ ops' = p.st.ops
          /\ log' = p.st.log
          /\ runs' = p.runs
    /\ UNCHANGED <<webhookConfig, charValue, acts, hostOn, posts, resets, event, send,
                   uiVars, config>>

RegNext ==
    \/ cache # <<>> /\ ConfigureAccessory(Head(cache))
    \/ DidFinishLaunching
    \/ Restart

RegSpec == RegInit /\ [][RegNext]_vars

----------------------------------------------------------------------------
(* From reconciliation to the request of a dispatcher *)

\* Whether the dispatcher attach k made answers the host: onSet replaces the
\* handler an earlier dispatcher set on the characteristic of the same
\* accessory object; a new accessory object has the one dispatcher made for it.
HoldsHandlers(k) ==
    /\ ops[k].op = "attach"
    /\ find(accessories, ops[k].UUID) # 0 =>
          \A j \in DOMAIN ops :
             j > k => ~(ops[j].op = "attach" /\ ops[j].UUID = ops[k].UUID)

\* The host requests `value` of the accessory dispatcher k serves: for the
\* open value the handler calls sendNotification, which builds the request
\* from this.webhookConfig and posts it.
LinkSet(k, value) ==
    /\ launched > 0
    /\ send = NoSend
    /\ k \in DOMAIN ops
    /\ HoldsHandlers(k)
    /\ LET cfg == ops[k].webhook
           r == setContactState("e1", value)
       IN /\ send' = IF r.posted > 0
                     THEN [pc |-> "posted", ent |-> "e1", op |-> k,
                           request |-> request(cfg), log |-> debugLines(cfg)]
                     ELSE send
          /\ webhookConfig' = IF r.posted > 0
                              THEN [webhookConfig EXCEPT !["e1"] = cfg]
                              ELSE webhookConfig
          /\ posts' = [posts EXCEPT !["e1"] = @ + r.posted]
          /\ hostOn' = [hostOn EXCEPT !["e1"] = @ + r.posted]
          /\ acts' = r.acts
          /\ charValue' = IF r.returned THEN [charValue EXCEPT !["e1"] = value]
                          ELSE charValue
          /\ event' = [NoEvent EXCEPT !.kind = "set", !.ent = "e1", !.value = value,
                                      !.slot = k]
    /\ UNCHANGED <<resets, uiVars, registryVars>>

LinkNext ==
    \/ cache # <<>> /\ ConfigureAccessory(Head(cache))
    \/ DidFinishLaunching
    \/ \E k \in DOMAIN ops, v \in Values : LinkSet(k, v)

LinkSpec == RegInit /\ [][LinkNext]_vars

----------------------------------------------------------------------------
(* Properties of the dispatcher *)

ActsOf(e) == {i \in Slots : acts[i].ent = e}

\* C1: a state query returns the closed (idle) value in every reachable
\* state of an entity: before any activation, right after an open request,
\* while a dispatch is in flight, while reset timers are pending and after
\* the reset.
C1_QueryAlwaysIdle ==
    /\ \A e \in Entities : getContactState(e) = CONTACT_DETECTED
    /\ event.kind = "get" => event.value = CONTACT_DETECTED

\* A query of an entity answered while the host holds the open value for it,
\* one of its dispatches is in flight and one of its reset timers is pending.
C1_Witness ==
    /\ event.kind = "get"
    /\ charValue[event.ent] = CONTACT_NOT_DETECTED
    /\ \E i, j \in ActsOf(event.ent) : InFlight(acts[i]) /\ TimerPending(acts[j])

\* C2: every open request of an entity is eventually followed by a reset of
\* that entity, whatever the outcome of its dispatch, given that time runs,
\* requests settle and timers fire: whenever an open request of e has not had
\* its reset, a state follows in which every open request delivered for e so
\* far has had its reset.
C2_EveryActivationResets ==
    \A e \in Entities : (hostOn[e] > resets[e]) ~> (resets[e] = hostOn[e])

\* The reset of an invocation whose request timed out has just run, and every
\* open request of the entity has had its reset.
C2_Witness ==
    /\ event.kind = "reset"
    /\ event.age = Timeout + ResetDelay
    /\ resets[event.ent] = hostOn[event.ent]

\* C3: the reset that belongs to an open request runs ResetDelayMs after that
\* request, whether or not its dispatch has completed by then.
C3_ResetAtDelayAfterActivation ==
    event.kind = "reset" => event.age = ResetDelay

\* C4 as claimed: the set handler has returned to the host whenever the
\* dispatch it started is in flight.
C4_HandlerReturnsBeforeResponse ==
    \A i \in Slots : InFlight(acts[i]) => acts[i].handler = "returned"

\* C4 as amended: the set handler is suspended, not returned, exactly while
\* its dispatch is in flight, and returns to the host when the dispatch has
\* settled; meanwhile state queries and further requests are served.
C4_HandlerReturnsOnSettle ==
    /\ \A i \in Slots : InFlight(acts[i]) <=> acts[i].handler = "running"
    /\ event.kind = "settle" => acts[event.slot].handler = "returned"
    /\ (\E i \in Slots : InFlight(acts[i])) =>
           \A e \in Entities :
               /\ ENABLED GetContactState(e)
               /\ ENABLED SetContactState(e, CONTACT_DETECTED)

\* A query of an entity answered while the set handler of that entity is
\* suspended with its dispatch in flight.
C4_Witness ==
    /\ event.kind = "get"
    /\ \E i \in ActsOf(event.ent) :
           InFlight(acts[i]) /\ acts[i].handler = "running" /\ acts[i].age > 0

\* C5: no mutual exclusion and no coalescing: n open requests of an entity
\* make n dispatch attempts and n resets, each reset made or still to come
\* from an invocation that awaits its dispatch or has its timer pending.
C5_NoCoalescing ==
    /\ \A e \in Entities :
          /\ posts[e] = hostOn[e]
          /\ resets[e] + Cardinality(ActsOf(e)) = hostOn[e]
    /\ \A i \in Slots : Live(acts[i])

\* The reset of an earlier open request has just run while the dispatch of a
\* later open request of the same entity is still in flight.
C5_Witness ==
    /\ event.kind = "reset"
    /\ hostOn[event.ent] = 2
    /\ resets[event.ent] = 1
    /\ posts[event.ent] = 2
    /\ \E i \in ActsOf(event.ent) : InFlight(acts[i])

\* C6: a request for the closed value is ignored: the step that handles it
\* issues no dispatch, starts no timer, makes no reset and leaves the bound
\* definition as it is.
C6_ClosedRequestIgnored ==
    [][(event'.kind = "set" /\ event'.value = CONTACT_DETECTED) =>
           (acts' = acts /\ posts' = posts /\ resets' = resets
            /\ webhookConfig' = webhookConfig)]_vars

\* A closed request handled while a reset timer of the entity is pending.
C6_Witness ==
    /\ event.kind = "set"
    /\ event.value = CONTACT_DETECTED
    /\ \E i \in ActsOf(event.ent) : TimerPending(acts[i])

\* C7: a dispatch failure never leaves the set handler: whatever the outcome,
\* the handler returns normally.
C7_FailureNotRaised ==
    /\ \A i \in Slots : acts[i].handler \in {"running", "returned"}
    /\ event.kind = "settle" =>
          /\ event.outcome \in {"Delivered", "Rejected", "TransportError"}
          /\ acts[event.slot].handler = "returned"

\* A request that timed out: the dispatch ended in a transport error and the
\* handler has returned.
C7_Witness ==
    /\ event.kind = "settle"
    /\ event.outcome = "TransportError"
    /\ event.age = Timeout
    /\ acts[event.slot].handler = "returned"

\* C8: each open request issues exactly one POST: none is added after a
\* rejection, a transport error or a 3xx answer.
C8_OnePostPerActivation ==
    /\ \A i \in Slots : acts[i].posts = 1 /\ acts[i].redirects = 0
    /\ SumOver(posts, Entities) = SumOver(hostOn, Entities)

\* A dispatch answered by a 3xx has settled as rejected with one POST made.
C8_Witness ==
    /\ event.kind = "settle"
    /\ event.status \in 300..399
    /\ event.outcome = "Rejected"
    /\ acts[event.slot].posts = 1
    /\ posts[event.ent] = hostOn[event.ent]

----------------------------------------------------------------------------
(* Properties of sendNotification *)

SendDone == send.pc = "done"
GotResponse == SendDone /\ send.wire.kind = "response"

\* C9 as claimed: a received response is Delivered exactly when its status is
\* a 2xx, and Rejected otherwise.
C9_DeliveredIff2xx ==
    GotResponse =>
        /\ Outcome(send.result) = "Delivered" <=> send.wire.status \in 200..299
        /\ send.wire.status \notin 200..299 => Outcome(send.result) = "Rejected"

\* C9 as amended: a received response is Delivered exactly when its status is
\* 200, and Rejected for every other status, the other 2xx included.
C9_DeliveredIff200 ==
    GotResponse =>
        /\ Outcome(send.result) = "Delivered" <=> send.wire.status = 200
        /\ send.wire.status # 200 => Outcome(send.result) = "Rejected"

\* A 204 answer has been mapped to Rejected.
C9_Witness ==
    /\ GotResponse
    /\ send.wire.status = 204
    /\ Outcome(send.result) = "Rejected"

\* C10: for every non-success response whose JSON body has an error or a
\* message field, the reason holds the status code and the text of those
\* fields, for 4xx and 5xx alike.
C10_ReasonCarriesFields ==
    (GotResponse /\ send.wire.status \notin 200..299
       /\ send.wire.data.kind = "object") =>
        /\ send.result.kind = "throw"
        /\ Contains(send.result.message, ToString(send.wire.status))
        /\ Truthy(send.wire.data.error) =>
               Contains(send.result.message, send.wire.data.error)
        /\ Truthy(send.wire.data.message) =>
               Contains(send.result.message, send.wire.data.message)

\* C11: when the body of a non-success response is not JSON, the reason holds
\* the raw text of the body; when the body is empty, the reason holds the
\* status and no detail.
C11_ReasonCarriesRawBody ==
    (GotResponse /\ send.wire.status \notin 200..299) =>
        /\ send.result.kind = "throw"
        /\ (send.wire.data.kind = "string" /\ send.wire.data.raw # "") =>
               Contains(send.result.message, send.wire.data.raw)
        /\ send.wire.data.kind = "empty" =>
               /\ Contains(send.result.message, ToString(send.wire.status))
               /\ ~Contains(send.result.message, " - ")

\* The definition a send is made for, and the body of its request.
SendCfg == webhookConfig[send.ent]
SendPosted == send.pc \in {"posted", "done"}
BodyKeys == {kv[1] : kv \in send.request.body}
Present(v) == v # Undefined /\ v # ""

\* C13: the body of the request holds text always, and title, groupType and
\* iconUrl exactly for the optional fields the definition has; each key holds
\* the definition's value, none is null or empty, and a definition with text
\* "Hi" and no optional field gives the body {"text": "Hi"}.
C13_BodyHoldsPresentFieldsOnly ==
    SendPosted =>
        /\ <<"text", SendCfg.text>> \in send.request.body
        /\ <<"title", SendCfg.title>> \in send.request.body
               <=> Present(SendCfg.title)
        /\ <<"groupType", SendCfg.groupType>> \in send.request.body
               <=> Present(SendCfg.groupType)
        /\ <<"iconUrl", SendCfg.iconURL>> \in send.request.body
               <=> Present(SendCfg.iconURL)
        /\ BodyKeys \subseteq {"text", "title", "groupType", "iconUrl"}
        /\ Cardinality(BodyKeys) = Cardinality(send.request.body)
        /\ \A kv \in send.request.body : Present(kv[2])
        /\ (SendCfg.text = "Hi" /\ ~Present(SendCfg.title)
               /\ ~Present(SendCfg.groupType) /\ ~Present(SendCfg.iconURL)) =>
               send.request.body = {<<"text", "Hi">>}

\* A request has been posted for a definition whose title is the empty
\* string, whose groupType is absent and whose icon is set: the body holds
\* text and iconUrl only.
C13_Witness ==
    /\ SendPosted
    /\ SendCfg.title = ""
    /\ SendCfg.groupType = Undefined
    /\ Present(SendCfg.iconURL)
    /\ BodyKeys = {"text", "iconUrl"}

\* C14: every dispatch is a POST to /notify-json/ followed by the
\* definition's id, the token is the one query parameter, and the token is in
\* no key or value of the body, in no header and not in the path.
C14_TokenOnlyInQuery ==
    SendPosted =>
        /\ send.request.method = "POST"
        /\ send.request.endpoint =
               <<"https://notifypush.pingie.com", "/notify-json/", SendCfg.id>>
        /\ send.request.params = {<<"token", SendCfg.token>>}
        /\ \A kv \in send.request.body \cup send.request.headers :
               /\ kv[1] # "token"
               /\ ~IsSubstring(SendCfg.token, kv[2])
        /\ \A i \in DOMAIN send.request.endpoint :
               ~IsSubstring(SendCfg.token, send.request.endpoint[i])

\* The request for text "Hi", id "ABC12345" and token "T" has been posted.
C14_Witness ==
    /\ SendPosted
    /\ SendCfg.token = "T" /\ SendCfg.id = "ABC12345"
    /\ send.request.body = {<<"text", "Hi">>}
    /\ send.request.params = {<<"token", "T">>}
    /\ send.request.endpoint[3] = "ABC12345"

\* C15: no log line written during a dispatch holds the complete token,
\* whatever its length.
C15_TokenNeverLoggedInFull ==
    SendPosted =>
        \A l \in DOMAIN send.log : \A i \in DOMAIN send.log[l] :
            ~IsSubstring(SendCfg.token, send.log[l][i].val)

\* The reset timers pending for entity e in the sequence of invocations a.
PendingTimers(a, e) == Cardinality({i \in DOMAIN a : a[i].ent = e /\ TimerPending(a[i])})

\* C16: the outcome of a dispatch does not alter the trigger: the step that
\* settles a dispatch leaves the bound definitions alone, leaves the host
\* holding the requested value for the entity and adds one pending reset
\* timer for it, and it does so alike for Delivered, Rejected and
\* TransportError.
C16_OutcomeLeavesTriggerAlone ==
    [][event'.kind = "settle" =>
          /\ event'.outcome \in {"Delivered", "Rejected", "TransportError"}
          /\ webhookConfig' = webhookConfig
          /\ charValue' = [charValue EXCEPT ![event'.ent] = CONTACT_NOT_DETECTED]
          /\ \A e \in Entities :
                PendingTimers(acts', e) =
                    PendingTimers(acts, e) + (IF e = event'.ent THEN 1 ELSE 0)
          /\ \A e \in Entities : getContactState(e) = CONTACT_DETECTED]_vars

\* A dispatch rejected with 401 has settled: the reset timer of its
\* invocation is pending and the definition is the one bound at the start.
C16_Witness ==
    /\ event.kind = "settle"
    /\ event.outcome = "Rejected"
    /\ event.status = 401
    /\ TimerPending(acts[event.slot])
    /\ webhookConfig[event.ent] = ConfigOf(event.ent)

UiDone == ui.pc = "done"
UiGotResponse == UiDone /\ ui.request.method = "POST" /\ ui.wire.kind = "response"

\* C12: the detail taken from a JSON error body tries the error field before
\* the message field: when both are present the reported detail is that of
\* the error field.
C12_ErrorFieldFirst ==
    (UiGotResponse /\ ui.wire.status # OkStatus /\ ui.wire.data.kind = "object"
       /\ Truthy(ui.wire.data.error) /\ Truthy(ui.wire.data.message)) =>
        /\ ui.result.success = FALSE
        /\ ui.result.error = ui.wire.data.error

----------------------------------------------------------------------------
(* Properties of the registry *)

Launched == launched > 0
IsList == config.type = "array"

RequiredFields == <<"name", "token", "text", "id">>

\* A declared entry is valid when it is a definition with the four required
\* fields.
IsValid(w) == w # Null /\ \A k \in DOMAIN RequiredFields : Present(w[RequiredFields[k]])
IsInvalidDefinition(w) == w # Null /\ ~IsValid(w)

\* The first required field a definition lacks, in the order name, token,
\* text, targetId (the id field).
FirstMissing(w) ==
    RequiredFields[CHOOSE k \in DOMAIN RequiredFields :
                       /\ ~Present(w[RequiredFields[k]])
                       /\ \A j \in 1..(k - 1) : Present(w[RequiredFields[j]])]

ValidItems == SelectSeq(config.items, IsValid)
InvalidDefinitions == SelectSeq(config.items, IsInvalidDefinition)

IsCreate(o) == o.op = "create"
IsAttach(o) == o.op = "attach"
IsRegister(o) == o.op = "register"
Creates == SelectSeq(ops, IsCreate)
Attaches == SelectSeq(ops, IsAttach)
Registers == SelectSeq(ops, IsRegister)

KnownUUIDs == {accessories[i].UUID : i \in DOMAIN accessories}

\* C17: invalid entries are skipped one by one: the dispatchers attached are
\* those of the valid definitions, one each and in their order, whatever
\* invalid entries stand before or after them; each has an entity, restored or
\* created; and no entity, registration or dispatcher belongs to an invalid
\* entry.
C17_InvalidEntriesSkippedIndividually ==
    (Launched /\ IsList) =>
        /\ Len(Attaches) = Len(ValidItems)
        /\ \A k \in DOMAIN Attaches :
              /\ Attaches[k].webhook = ValidItems[k]
              /\ Attaches[k].UUID = generate(ValidItems[k].name)
              /\ \/ Attaches[k].UUID \in KnownUUIDs
                 \/ \E c \in DOMAIN Creates : Creates[c].UUID = Attaches[k].UUID
        /\ \A o \in DOMAIN ops :
              \E k \in DOMAIN ValidItems : ops[o].UUID = generate(ValidItems[k].name)
        /\ Len(Creates) = Len(Registers)
        /\ Len(Creates) <= Len(ValidItems)

\* A list of an invalid definition, a valid one and another invalid entry has
\* been reconciled: the valid definition has its dispatcher.
C17_Witness ==
    /\ Launched /\ IsList
    /\ Len(config.items) = 3
    /\ IsInvalidDefinition(config.items[1])
    /\ IsValid(config.items[2])
    /\ ~IsValid(config.items[3])
    /\ Len(Attaches) = 1
    /\ Attaches[1].webhook = config.items[2]

\* The lines that report a definition as skipped, and those that report a
\* null entry.
IsDiagnostic(l) ==
    /\ l.level = "error"
    /\ \E i \in DOMAIN l.text :
          l.text[i] \in {"Webhook configuration is missing ", "\" is missing "}
IsNullWarning(l) ==
    l = LogLine("warn", <<"Skipping null or undefined webhook entry in configuration">>)
Diagnostics == SelectSeq(log, IsDiagnostic)
IsNull(w) == w = Null

\* C18: each skipped definition has its diagnostic, in the order of the
\* list: the line holds the name of the definition when it has one, and names
\* the first field that is missing in the order name, token, text, id.
C18_DiagnosticNamesFirstMissingField ==
    (Launched /\ IsList) =>
        /\ Len(Diagnostics) = Len(InvalidDefinitions)
        /\ \A k \in DOMAIN Diagnostics :
              LET line == Diagnostics[k].text
                  w == InvalidDefinitions[k]
              IN /\ line[Len(line)] = FirstMissing(w)
                 /\ Present(w.name) => Contains(line, w.name)
        /\ Len(SelectSeq(log, IsNullWarning)) = Len(SelectSeq(config.items, IsNull))

\* A definition named "Bell" that lacks both token and text has been
\* skipped with a diagnostic that names "Bell" and the token.
C18_Witness ==
    /\ Launched /\ IsList
    /\ \E i \in DOMAIN config.items :
          /\ config.items[i] # Null
          /\ config.items[i].name = "Bell"
          /\ ~Present(config.items[i].token)
          /\ ~Present(config.items[i].text)
    /\ \E k \in DOMAIN Diagnostics :
          /\ Contains(Diagnostics[k].text, "Bell")
          /\ Diagnostics[k].text[Len(Diagnostics[k].text)] = "token"

\* C19: against an empty known set, reconciliation creates one entity and
\* issues one registration signal for each valid declared definition, in
\* their order.
C19_EmptyKnownSetCreatesOnePerDefinition ==
    (Launched /\ IsList /\ accessories = <<>>) =>
        /\ Len(Creates) = Len(ValidItems)
        /\ Len(Registers) = Len(ValidItems)
        /\ \A k \in DOMAIN ValidItems :
              /\ Creates[k].UUID = generate(ValidItems[k].name)
              /\ Registers[k].UUID = generate(ValidItems[k].name)
              /\ Registers[k].webhook = ValidItems[k]

\* Two valid definitions of different names have been reconciled against an
\* empty known set: two entities, two registration signals.
C19_Witness ==
    /\ Launched /\ IsList /\ accessories = <<>>
    /\ Len(ValidItems) = 2
    /\ ValidItems[1].name # ValidItems[2].name
    /\ Len(Creates) = 2
    /\ Len(Registers) = 2

\* C20: a declared definition whose identifier matches an entity of the
\* known set reuses it: the known set keeps its entities, none is created and
\* no registration is signalled for that identifier, and the dispatcher of
\* the definition is attached to the known entity.
C20_MatchReusesEntity ==
    [][launched' > launched =>
          /\ Len(accessories') = Len(accessories)
          /\ \A i \in DOMAIN accessories : accessories'[i].UUID = accessories[i].UUID
          /\ \A i \in DOMAIN accessories :
                /\ \A o \in DOMAIN ops' :
                      ops'[o].UUID = accessories[i].UUID => ops'[o].op = "attach"
                /\ \A k \in DOMAIN config.items :
                      (IsValid(config.items[k])
                         /\ generate(config.items[k].name) = accessories[i].UUID) =>
                          \E o \in DOMAIN ops' :
                              /\ ops'[o].op = "attach"
                              /\ ops'[o].UUID = accessories[i].UUID
                              /\ ops'[o].webhook = config.items[k]]_vars

\* A valid definition named "Front Door" has been reconciled with the cached
\* accessory of that name in the known set: its dispatcher is attached and
\* nothing was created or registered for it.
C20_Witness ==
    /\ Launched /\ IsList
    /\ generate("Front Door") \in KnownUUIDs
    /\ \E k \in DOMAIN ValidItems : ValidItems[k].name = "Front Door"
    /\ \E o \in DOMAIN ops : ops[o].op = "attach" /\ ops[o].UUID = generate("Front Door")
    /\ \A o \in DOMAIN ops :
          ops[o].UUID = generate("Front Door") => ops[o].op = "attach"

\* The step in which discoverDevices runs.
Reconciles == runs' > runs

\* The declared valid definitions whose identifier is u, in their order.
DeclaredFor(u) ==
    LET Names(w) == IsValid(w) /\ generate(w.name) = u IN
    SelectSeq(config.items, Names)

\* Whether accessory i of the known set is the one a lookup of its
\* identifier finds.
IsFirstOf(accs, i) == \A j \in 1..(i - 1) : accs[j].UUID # accs[i].UUID

\* C21: on a match the definition bound to the entity is replaced wholesale
\* by the declared definition (the last one declared for the identifier): no
\* field of the previous definition is left; the identifier, the display name
\* and the host's metadata of the entity stay.
C21_MatchReplacesDefinitionWholesale ==
    [][Reconciles =>
          \A i \in DOMAIN accessories :
              LET d == DeclaredFor(accessories[i].UUID) IN
              /\ accessories'[i].UUID = accessories[i].UUID
              /\ accessories'[i].displayName = accessories[i].displayName
              /\ accessories'[i].meta = accessories[i].meta
              /\ (IsList /\ d # <<>> /\ IsFirstOf(accessories, i)) =>
                     accessories'[i].webhook = d[Len(d)]]_vars

\* The cached accessory "Front Door", whose previous definition had a title,
\* has been matched by a declared definition without one: its definition is
\* the declared one and its metadata is kept.
C21_Witness ==
    /\ Launched /\ restarts = 0
    /\ \E i \in DOMAIN accessories :
          /\ accessories[i].UUID = generate("Front Door")
          /\ accessories[i].meta = "Hallway"
          /\ accessories[i].webhook =
                 Webhook("Front Door", "T", "Hi", "ABC12345", Undefined)

KnownSet == accessories \o cache
UUIDsOf(accs) == {accs[i].UUID : i \in DOMAIN accs}

C23_SecondRunChangesNothing ==
    [][(Reconciles /\ restarts > 0) =>
          /\ \A o \in DOMAIN ops' : ops'[o].op = "attach"
          /\ Len(accessories') = Len(accessories)
          /\ \A i \in DOMAIN accessories :
                accessories'[i].webhook = accessories[i].webhook]_vars

\* C24: an entity is created once per distinct name: reconciliation creates
\* at most one entity and signals at most one registration per identifier,
\* also when two valid definitions share a name.
C24_OneEntityPerIdentifier ==
    (Launched /\ IsList) =>
        /\ \A c, d \in DOMAIN Creates : Creates[c].UUID = Creates[d].UUID => c = d
        /\ \A c, d \in DOMAIN Registers :
              Registers[c].UUID = Registers[d].UUID => c = d

IsLoadingLine(l) == l.level = "info" /\ l.text[1] = "Loading accessory from cache:"
IsCallbackLine(l) == l = LogLine("debug", <<"Executed didFinishLaunching callback">>)

\* C25: discoverDevices never runs before the host has signalled
\* didFinishLaunching and runs once per signal; every accessory the host
\* restored before the signal is in the list discoverDevices searches, so
\* none of them is created anew.
C25_ReconcilesOncePerReadinessSignal ==
    /\ runs = launched
    /\ ~Launched => ops = <<>>
    /\ Launched =>
          /\ cache = <<>>
          /\ Len(SelectSeq(log, IsCallbackLine)) = runs
          /\ \A l \in DOMAIN log :
                IsLoadingLine(log[l]) =>
                    /\ \A m \in 1..l : ~IsCallbackLine(log[m])
                    /\ \E i \in DOMAIN accessories :
                          /\ accessories[i].displayName = log[l].text[2]
                          /\ \A c \in DOMAIN Creates :
                                Creates[c].UUID # accessories[i].UUID

\* Two cached accessories were restored before the signal; discoverDevices
\* has run once and has attached a dispatcher to one of them.
C25_Witness ==
    /\ Launched /\ runs = 1
    /\ Len(SelectSeq(log, IsLoadingLine)) = 2
    /\ \E o \in DOMAIN ops : ops[o].op = "attach" /\ ops[o].UUID \in KnownUUIDs

\* C28: the identifier is a function of the name alone: every identifier made
\* or matched is the one generated from the name of its definition, so
\* definitions of the same name get the same identifier whatever their other
\* fields and their place in the list, in every pass and equal to that of the
\* accessory of that name an earlier pass left.
C28_IdentifierFromNameAlone ==
    /\ \A o \in DOMAIN ops :
          /\ ops[o].UUID = generate(ops[o].name)
          /\ ops[o].op = "attach" => ops[o].webhook.name = ops[o].name
    /\ \A o, q \in DOMAIN ops : ops[o].name = ops[q].name => ops[o].UUID = ops[q].UUID
    /\ \A o \in DOMAIN ops : \A i \in DOMAIN accessories :
          accessories[i].displayName = ops[o].name => accessories[i].UUID = ops[o].UUID

\* In the pass after a restart two definitions of the same name that differ
\* in their other fields have been given the same identifier, that of the
\* accessory the first pass left.
C28_Witness ==
    /\ Launched /\ restarts = 1
    /\ \E o, q \in DOMAIN ops :
          /\ ops[o].op = "attach" /\ ops[q].op = "attach"
          /\ ops[o].name = ops[q].name
          /\ ops[o].webhook # ops[q].webhook
          /\ ops[o].UUID = ops[q].UUID
          /\ ops[o].UUID \in KnownUUIDs

\* ---------------------------------------------------------------------------
\* The dispatchers of different entities

InFlightOf(a, e) == Len(SelectSeq(a, LAMBDA x : x.ent = e /\ InFlight(x)))

\* The entity a step acts on: the one whose handler was called, whose request
\* settled or whose reset timer ran.
ActsOn(e) == hostOn'[e] # hostOn[e] \/ event'.ent = e

\* The timers and requests of e as they stand, whatever their slot.
LiveOf(a, e) == SelectSeq(a, LAMBDA x : x.ent = e)

Aged(a) == [i \in DOMAIN a |-> IF Live(a[i]) THEN [a[i] EXCEPT !.age = @ + 1] ELSE a[i]]

\* C26: an activation, completion or reset of one entity leaves the
\* observable state, the bound definition, the requests and the pending
\* timers of every other entity as they were (time alone ages them).
C26_EntitiesShareNoState ==
    [][\A e \in Entities :
         ~ActsOn(e) =>
            /\ charValue'[e] = charValue[e]
            /\ webhookConfig'[e] = webhookConfig[e]
            /\ posts'[e] = posts[e]
            /\ resets'[e] = resets[e]
            /\ PendingTimers(acts', e) = PendingTimers(acts, e)
            /\ InFlightOf(acts', e) = InFlightOf(acts, e)
            /\ LiveOf(acts', e) \in {LiveOf(acts, e), Aged(LiveOf(acts, e))}]_vars

\* The reset timer of one entity has run while another entity is open with
\* its own timer pending.
C26_Witness ==
    /\ event.kind = "reset"
    /\ \E e \in Entities \ {event.ent} :
          /\ charValue[e] = CONTACT_NOT_DETECTED
          /\ PendingTimers(acts, e) = 1

\* ---------------------------------------------------------------------------
\* The end of a dispatch

IsOutcome(o) == o \in {"Delivered", "Rejected", "TransportError"}

InFlightCount(a) == Len(SelectSeq(a, InFlight))

\* C27: a dispatch ends with one outcome among Delivered, Rejected and
\* TransportError: a request leaves flight only by settling, it settles once,
\* a request without an answer is ended by the timeout as TransportError, and
\* none is in flight past the timeout.
C27_EveryDispatchEndsOnce ==
    /\ [](\A i \in Slots :
            /\ InFlight(acts[i]) => acts[i].age <= Timeout
            /\ TimeoutDue(acts[i]) => ENABLED RequestTimeout(i) /\ ~ENABLED Tick)
    /\ [][/\ event'.kind = "settle" =>
               /\ IsOutcome(event'.outcome)
               /\ InFlight(acts[event'.slot])
               /\ ~InFlight(acts'[event'.slot])
               /\ InFlightCount(acts') = InFlightCount(acts) - 1
               /\ event'.age = Timeout => event'.outcome = "TransportError"
          /\ event'.kind # "settle" => InFlightCount(acts') >= InFlightCount(acts)]_vars

\* A request that got no answer has been ended by the timeout, and nothing is
\* in flight any more.
C27_Witness ==
    /\ event.kind = "settle"
    /\ event.age = Timeout
    /\ event.outcome = "TransportError"
    /\ InFlightCount(acts) = 0

\* ---------------------------------------------------------------------------
\* Overlapping activations

\* C29: a pending reset timer is neither cancelled nor re-armed: it stays
\* pending, armed for the same instant, until it runs itself, and it runs at
\* that instant whatever was activated since.
C29_TimersNeverCancelled ==
    [][/\ \A i \in Slots :
            TimerPending(acts[i]) =>
               \/ event'.kind = "reset" /\ event'.slot = i
               \/ \E j \in DOMAIN acts' \cap {i - 1, i} :
                     /\ acts'[j].ent = acts[i].ent
                     /\ TimerPending(acts'[j])
                     /\ acts'[j].setAt = acts[i].setAt
                     /\ acts'[j].age \in {acts[i].age, acts[i].age + 1}
       /\ event'.kind = "reset" =>
            /\ TimerPending(acts[event'.slot])
            /\ event'.age = acts[event'.slot].setAt + ResetDelay
            /\ charValue'[event'.ent] = CONTACT_DETECTED]_vars

\* The timer of an earlier activation has written idle while a later
\* activation of the same entity is less than the reset delay old.
C29_Witness ==
    /\ event.kind = "reset"
    /\ charValue[event.ent] = CONTACT_DETECTED
    /\ \E i \in Slots :
          /\ acts[i].ent = event.ent
          /\ acts[i].age * TickMs < ResetDelayMs

\* ---------------------------------------------------------------------------
\* The writes of the plugin

\* C30: the plugin writes the idle value and nothing else: the constructor
\* writes it, every reset timer writes it, and the state becomes open only as
\* the host stores the value it requested when the handler returns.
C30_PluginWritesIdleOnly ==
    /\ \A e \in Entities : charValue[e] = CONTACT_DETECTED
    /\ [][/\ event'.kind = "reset" =>
               /\ event'.value = CONTACT_DETECTED
               /\ charValue'[event'.ent] = CONTACT_DETECTED
          /\ \A e \in Entities :
               charValue'[e] = CONTACT_NOT_DETECTED /\ charValue[e] # CONTACT_NOT_DETECTED =>
                  /\ event'.kind = "settle"
                  /\ event'.ent = e
                  /\ event'.value = CONTACT_NOT_DETECTED
                  /\ acts[event'.slot].handler = "running"
                  /\ acts'[event'.slot].handler = "returned"]_vars

\* A reset timer has written idle over the open state of its entity.
C30_Witness ==
    /\ event.kind = "reset"
    /\ event.value = CONTACT_DETECTED
    /\ resets[event.ent] = 1
    /\ hostOn[event.ent] = 1
    /\ charValue[event.ent] = CONTACT_DETECTED

----------------------------------------------------------------------------
(* Reconciliation and the dispatchers it attaches *)

\* C31: every dispatcher reconciliation attaches has written the idle value
\* to its entity and has made no request; reconciliation leaves the request
\* counts of all entities at zero and no call of sendNotification under way.
C31_AttachWritesIdleAndSendsNothing ==
    /\ \A k \in DOMAIN ops :
          IsAttach(ops[k]) =>
             /\ ops[k].state = CONTACT_DETECTED
             /\ ops[k].requests = 0
    /\ \A e \in Entities : posts[e] = 0
    /\ send = NoSend
    /\ acts = <<>>

\* Reconciliation has attached a dispatcher to a restored accessory and to a
\* new one.
C31_Witness ==
    /\ Launched
    /\ \E k \in DOMAIN ops :
          IsAttach(ops[k]) /\ ops[k].UUID \in UUIDsOf(accessories)
    /\ \E k \in DOMAIN ops :
          IsAttach(ops[k]) /\ ops[k].UUID \notin UUIDsOf(accessories)

\* C32: when the webhooks value is absent or is not a list, reconciliation
\* creates, attaches and registers nothing, and the accessories stay as the
\* host restored them.
C32_NoListNoChange ==
    [][(Reconciles /\ ~IsList) =>
          /\ ops' = ops
          /\ ops' = <<>>
          /\ accessories' = accessories]_vars

\* Reconciliation has run without a list over restored accessories.
C32_Witness ==
    /\ Launched
    /\ ~IsList
    /\ Len(accessories) = 2
    /\ ops = <<>>

\* The definitions reconciliation finds no restored accessory for, in the
\* order of their declaration.
NotRestored(w) == generate(w.name) \notin UUIDsOf(accessories)
WebhooksOf(o) == [i \in DOMAIN o |-> o[i].webhook]

\* C34: definitions are processed in the order of their declaration: the
\* dispatchers are attached in that order, the registrations are those of the
\* definitions without a restored accessory, in that order, and each
\* registration directly follows the attach of the same accessory.
C34_DeclarationOrderAttachBeforeRegister ==
    (Launched /\ IsList) =>
       /\ WebhooksOf(Attaches) = ValidItems
       /\ WebhooksOf(Registers) = SelectSeq(ValidItems, NotRestored)
       /\ \A k \in DOMAIN ops :
             IsRegister(ops[k]) =>
                /\ k > 2
                /\ IsAttach(ops[k - 1])
                /\ ops[k - 1].UUID = ops[k].UUID
                /\ ops[k - 1].webhook = ops[k].webhook
                /\ IsCreate(ops[k - 2])
                /\ ops[k - 2].UUID = ops[k].UUID

\* A new accessory has been registered between two attaches to a restored
\* one, in the order of the declarations.
C34_Witness ==
    /\ Launched
    /\ Len(Registers) = 1
    /\ Len(Attaches) = 3
    /\ Attaches[1].name = "Front Door"
    /\ Attaches[2].name = "Family"
    /\ Attaches[3].name = "Front Door"
    /\ Registers[1].name = "Family"

\* The definition in the context of the accessory attach k served: that of
\* the restored accessory, or that of the new accessory as the host was given
\* it by the registration that follows.
ContextOf(k) ==
    IF find(accessories, ops[k].UUID) # 0
    THEN accessories[find(accessories, ops[k].UUID)].webhook
    ELSE ops[k + 1].webhook

FieldOf(key) == IF key = "iconUrl" THEN "iconURL" ELSE key

\* Whether every part of a request comes from the definition d.
FromDefinition(req, d) ==
    /\ req.endpoint[Len(req.endpoint)] = d.id
    /\ req.params = {<<"token", d.token>>}
    /\ <<"text", d.text>> \in req.body
    /\ \A kv \in req.body : kv[2] = d[FieldOf(kv[1])]
    /\ \A key \in {"title", "groupType", "iconUrl"} :
          Truthy(d[FieldOf(key)]) => <<key, d[FieldOf(key)]>> \in req.body

\* C33: the request of a dispatch is built from one definition, the one the
\* dispatcher was bound to at its attach; that definition is a declared one
\* and is the one the context of the accessory holds.
C33_RequestFromTheBoundDefinition ==
    send.pc = "posted" =>
       /\ ops[send.op].webhook = ContextOf(send.op)
       /\ FromDefinition(send.request, ContextOf(send.op))
       /\ \E i \in DOMAIN config.items : config.items[i] = ContextOf(send.op)

\* A request has been posted for a restored accessory whose cached definition
\* differs from the declared one in every field but the name, after an
\* earlier dispatcher of the same accessory had been bound to another
\* definition.
C33_Witness ==
    /\ send.pc = "posted"
    /\ find(accessories, ops[send.op].UUID) # 0
    /\ \E j \in 1..(send.op - 1) :
          /\ ops[j].op = "attach"
          /\ ops[j].UUID = ops[send.op].UUID
          /\ ops[j].webhook # ops[send.op].webhook
    /\ \E kv \in send.request.body : kv[1] = "title"

----------------------------------------------------------------------------
(* The test of a webhook from the settings UI *)

LacksField(p) == ~Truthy(p.token) \/ ~Truthy(p.text) \/ ~Truthy(p.id)

\* C35: testWebhook returns a result with a success flag whatever happens: a
\* payload that lacks token, text or id gets success = false with an error
\* and no request is issued for it, and an error of the request comes back as
\* success = false with the message of the error.
C35_TestAlwaysReturnsAResult ==
    /\ ui.pc = "posted" => ui.payload # Null /\ ~LacksField(ui.payload)
    /\ UiDone =>
         /\ ui.result.kind = "return"
         /\ ui.result.success \in BOOLEAN
         /\ (ui.payload = Null \/ LacksField(ui.payload)) =>
               /\ ui.result.success = FALSE
               /\ Truthy(ui.result.error)
               /\ ui.request.method = "none"
         /\ (ui.request.method = "POST" /\ ui.wire.kind = "error") =>
               /\ ui.result.success = FALSE
               /\ ui.result.error = ui.wire.code

\* A test has returned after its request failed on the network.
C35_Witness ==
    /\ UiDone
    /\ ui.request.method = "POST"
    /\ ui.wire.kind = "error"
    /\ ui.result.success = FALSE

\* What the service reads back from an escaped component of a URL.
RECURSIVE decodeURIComponent(_)
decodeURIComponent(str) ==
    IF Len(str) = 0 THEN ""
    ELSE IF SubSeq(str, 1, 1) = "%" /\ Len(str) >= 3
    THEN LET code == SubSeq(str, 2, 3)
             c == CASE code = "20" -> " " [] code = "26" -> "&" [] code = "3D" -> "="
                    [] code = "2B" -> "+" [] OTHER -> "?"
         IN c \o decodeURIComponent(SubSeq(str, 4, Len(str)))
    ELSE SubSeq(str, 1, 1) \o decodeURIComponent(SubSeq(str, 2, Len(str)))

\* Whether the request of the test and the request of the dispatcher are the
\* same to the service: host, path, token in the query, body.
SameRequest(t, d) ==
    /\ t.method = d.method
    /\ d.endpoint = <<"https://" \o t.hostname, t.path[1], t.path[2]>>
    /\ t.port = 443
    /\ t.path[1] = "/notify-json/"
    /\ t.path[3] = "?token="
    /\ d.params = {<<"token", decodeURIComponent(t.path[4])>>}
    /\ t.body = d.body
    /\ <<"Content-Type", "application/json">> \in t.headers \cap d.headers

\* C36: for a definition with all required fields the test sends the request
\* the dispatcher sends (path /notify-json/{id}, the token in the query, the
\* same body) and reports success exactly when the dispatcher ends Delivered
\* on the same answer.
C36_TestSendsWhatTheDispatcherSends ==
    /\ ui.pc # "call" => ui.request.method = "POST"
    /\ (SendPosted /\ ui.pc # "call") => SameRequest(ui.request, send.request)
    /\ (SendDone /\ UiDone) =>
          (ui.result.success <=> Outcome(send.result) = "Delivered")

\* Both have ended on a 200 for a definition whose token needs escaping and
\* which has a title.
C36_Witness ==
    /\ SendDone
    /\ UiDone
    /\ ui.result.success
    /\ SendCfg.token = "a b&c"
    /\ Truthy(SendCfg.title)
    /\ ui.request.path[4] # SendCfg.token

----------------------------------------------------------------------------
(* The two dispatchers on the same requests *)

\* C37: handed the same values, opened as on and closed as off, the contact
\* sensor and the switch issue the same dispatches and the same resets: their
\* request counts agree, and each has one reset, done or pending, per
\* request.
C37_SwitchAndContactSensorAgree ==
    /\ posts["e1"] = posts["e2"]
    /\ \A e \in Entities : resets[e] + Cardinality(ActsOf(e)) = posts[e]
    /\ getOn("e2") = toSwitch(getContactState("e1"))

====
